---- MODULE Spec2Model ----
(***************************************************************************)
(* Model of scraper.py: the load-or-download cache (load_or_download) and  *)
(* the recursive traversal (download_data) started by main.                *)
(*                                                                         *)
(* Strings are sequences of tokens.  A token is either one character of an *)
(* identifier ("a", "*", "/", "_", ...) or a whole literal of the source   *)
(* ("data", "results", "info", ".json", ...).  No literal can be spelled   *)
(* with the identifier characters, so two token sequences are equal        *)
(* exactly when the Python strings are.                                    *)
(***************************************************************************)
EXTENDS Integers, Sequences, FiniteSets, TLC

\* ------------------------------------------------------------ bounds
\* number of runs of main that are started one after the other
MaxRuns == 2
\* number of fetches the upstream answers with something else than its document
MaxFail == 1
\* number of times one run sleeps RETRY_WAIT and tries again
MaxRetry == 2
\* depth of the Python call stack at which RecursionError is raised
MaxDepth == 3

\* ------------------------------------------------------------ strings
BASE_URL == <<"https://2022electionresults.comelec.gov.ph/data">>
BASE_DIR == <<"data">>
RETRY_WAIT == "RETRY_WAIT"
DOWNLOAD_DELAY == "download_delay"

\* str.replace(old, new) for one-character old and new
Replace(s, old, new) == [i \in 1..Len(s) |-> IF s[i] = old THEN new ELSE s[i]]

\* os.path.join(a, b)
Join2(a, b) ==
    IF b # <<>> /\ b[1] = "/" THEN b
    ELSE IF a = <<>> \/ a[Len(a)] = "/" THEN a \o b
    ELSE a \o <<"/">> \o b

\* os.path.join(a, b, c, ...)
RECURSIVE PathJoin(_)
PathJoin(parts) ==
    IF Len(parts) = 1 THEN parts[1]
    ELSE PathJoin(<<Join2(parts[1], parts[2])>> \o SubSeq(parts, 3, Len(parts)))

\* urljoin = lambda *args: '/'.join(args)
RECURSIVE urljoin(_)
urljoin(args) ==
    IF Len(args) = 1 THEN args[1]
    ELSE args[1] \o <<"/">> \o urljoin(Tail(args))

\* index of the last "/" of p, 0 when there is none
LastSep(p) ==
    IF \E i \in 1..Len(p) : p[i] = "/"
    THEN CHOOSE i \in 1..Len(p) : p[i] = "/" /\ \A j \in (i+1)..Len(p) : p[j] # "/"
    ELSE 0

\* str.rstrip('/')
RECURSIVE RStripSep(_)
RStripSep(s) ==
    IF s # <<>> /\ s[Len(s)] = "/" THEN RStripSep(SubSeq(s, 1, Len(s) - 1)) ELSE s

\* os.path.dirname(p)
Dirname(p) ==
    LET head == SubSeq(p, 1, LastSep(p)) IN
    IF \A j \in 1..Len(head) : head[j] = "/" THEN head ELSE RStripSep(head)

\* the directories os.makedirs(d, exist_ok=True) leaves in place: d and its ancestors
RECURSIVE Ancestors(_)
Ancestors(d) ==
    IF d = <<>> THEN {}
    ELSE IF Dirname(d) = d THEN {d}
    ELSE {d} \cup Ancestors(Dirname(d))

\* ------------------------------------------------------------ documents
\* A JSON document: `has` is the set of keys it holds, `id` tells payloads apart.
Doc(has, can, srs, pps, rs, id) ==
    [has |-> has, can |-> can, srs |-> srs, pps |-> pps, rs |-> rs, id |-> id]

\* a node descriptor: classification, child references, terminal-data references
Desc(can, srs, pps, id) == Doc({"can", "srs", "pps"}, can, srs, pps, <<>>, id)
\* an election return: result rows, each with a contest identifier
ER(ccs, id) == Doc({"rs"}, "", <<>>, <<>>, [i \in 1..Len(ccs) |-> [cc |-> ccs[i]]], id)
\* a canvass certificate or a contest document: not interpreted
Opaque(id) == Doc({}, "", <<>>, <<>>, <<>>, id)
NoDoc == Doc({}, "", <<>>, <<>>, <<>>, "none")

Child(rn, url) == [rn |-> rn, url |-> url]
\* a terminal-data reference with its voting-board references
Pps(ppcc, vbsUrls) ==
    [ppcc |-> ppcc, vbs |-> [i \in 1..Len(vbsUrls) |-> [url |-> vbsUrls[i]]]]

RegionUrl(node_url) == urljoin(<<BASE_URL, <<"regions">>, node_url>>)
ResultUrl(u) == urljoin(<<BASE_URL, <<"results">>, u \o <<".json">>>>)
ContestUrl(c) == urljoin(<<BASE_URL, <<"contests">>, c \o <<".json">>>>)
ROOT_URL == <<"root", ".json">>
NodeUrl(u) == RegionUrl(u \o <<".json">>)

\* ------------------------------------------------------------ upstream trees
\* two leaves that share contest x; the root carries a canvass certificate
WorldPlain ==
    (RegionUrl(ROOT_URL) :> Desc("Region",
        <<Child(<<"a">>, <<"a">>), Child(<<"b">>, <<"b">>)>>,
        <<Pps(<<"c">>, <<(<<"k">>)>>)>>, "root"))
    @@ (NodeUrl(<<"a">>) :> Desc("Barangay", <<>>, <<Pps(<<"p">>, <<(<<"r">>)>>)>>, "a"))
    @@ (NodeUrl(<<"b">>) :> Desc("Barangay", <<>>, <<Pps(<<"q">>, <<(<<"s">>)>>)>>, "b"))
    @@ (ResultUrl(<<"r">>) :> ER(<<(<<"x">>), (<<"x">>), (<<"y">>)>>, "r"))
    @@ (ResultUrl(<<"s">>) :> ER(<<(<<"x">>)>>, "s"))
    @@ (ResultUrl(<<"k">>) :> Opaque("k"))
    @@ (ContestUrl(<<"x">>) :> Opaque("x"))
    @@ (ContestUrl(<<"y">>) :> Opaque("y"))

\* terminal and contest identifiers with '*', and ones that differ only by '*' and '_'
WorldStar ==
    (RegionUrl(ROOT_URL) :> Desc("Barangay", <<>>,
        <<Pps(<<"p", "*">>, <<(<<"r">>)>>), Pps(<<"q">>, <<(<<"t">>)>>),
          Pps(<<"p", "_">>, <<(<<"s">>)>>)>>, "root"))
    @@ (ResultUrl(<<"r">>) :> ER(<<(<<"x", "*">>)>>, "r"))
    @@ (ResultUrl(<<"s">>) :> ER(<<(<<"x", "_">>)>>, "s"))
    @@ (ResultUrl(<<"t">>) :> ER(<<(<<"x", "*">>)>>, "t"))
    @@ (ContestUrl(<<"x", "*">>) :> Opaque("x*"))
    @@ (ContestUrl(<<"x", "_">>) :> Opaque("x_"))

\* sibling names that differ only by '/' and '_'
WorldSlash ==
    (RegionUrl(ROOT_URL) :> Desc("Region",
        <<Child(<<"a", "/", "b">>, <<"u">>), Child(<<"a", "_", "b">>, <<"v">>)>>,
        <<>>, "root"))
    @@ (NodeUrl(<<"u">>) :> Desc("Province", <<>>, <<Pps(<<"c">>, <<(<<"k">>)>>)>>, "u"))
    @@ (NodeUrl(<<"v">>) :> Desc("Province", <<>>, <<Pps(<<"c">>, <<(<<"m">>)>>)>>, "v"))
    @@ (ResultUrl(<<"k">>) :> Opaque("k"))
    @@ (ResultUrl(<<"m">>) :> Opaque("m"))

\* a leaf whose first election return is not published
WorldUnavail ==
    (RegionUrl(ROOT_URL) :> Desc("Barangay", <<>>,
        <<Pps(<<"p">>, <<(<<"r">>)>>), Pps(<<"q">>, <<(<<"s">>)>>)>>, "root"))
    @@ (ResultUrl(<<"s">>) :> ER(<<(<<"x">>)>>, "s"))
    @@ (ContestUrl(<<"x">>) :> Opaque("x"))

\* a Country node with two canvass certificates, the second not published
WorldCountry ==
    (RegionUrl(ROOT_URL) :> Desc("Country", <<>>,
        <<Pps(<<"c">>, <<(<<"k">>)>>), Pps(<<"d">>, <<(<<"m">>)>>)>>, "root"))
    @@ (ResultUrl(<<"k">>) :> Opaque("k"))

\* a Region node with two terminal-data references
WorldTwoCoc ==
    (RegionUrl(ROOT_URL) :> Desc("Region", <<>>,
        <<Pps(<<"c">>, <<(<<"k">>)>>), Pps(<<"d">>, <<(<<"m">>)>>)>>, "root"))
    @@ (ResultUrl(<<"k">>) :> Opaque("k"))
    @@ (ResultUrl(<<"m">>) :> Opaque("m"))

\* a leaf below the root with an election return that has two voting-board
\* references, after a regular one with the same identifier, so that its payload
\* file is on disk when it is reached; the root carries a canvass certificate
WorldVbs2 ==
    (RegionUrl(ROOT_URL) :> Desc("Region", <<Child(<<"a">>, <<"a">>)>>,
        <<Pps(<<"c">>, <<(<<"k">>)>>)>>, "root"))
    @@ (NodeUrl(<<"a">>) :> Desc("Barangay", <<>>,
        <<Pps(<<"p">>, <<(<<"r">>)>>), Pps(<<"p">>, <<(<<"s">>), (<<"r">>)>>)>>, "a"))
    @@ (ResultUrl(<<"r">>) :> ER(<<>>, "r"))
    @@ (ResultUrl(<<"s">>) :> ER(<<>>, "s"))
    @@ (ResultUrl(<<"k">>) :> Opaque("k"))

\* a canvass certificate without a voting-board reference
WorldVbs0 ==
    (RegionUrl(ROOT_URL) :> Desc("Region", <<>>, <<Pps(<<"c">>, <<>>)>>, "root"))

\* a child with the empty name
WorldEmptyName ==
    (RegionUrl(ROOT_URL) :> Desc("Region", <<Child(<<>>, <<"a">>)>>, <<>>, "root"))
    @@ (NodeUrl(<<"a">>) :> Desc("Barangay", <<>>, <<>>, "a"))

\* a terminal identifier equal to the descriptor's file name
WorldInfo ==
    (RegionUrl(ROOT_URL) :> Desc("Barangay", <<>>, <<Pps(<<"info">>, <<(<<"r">>)>>)>>, "root"))
    @@ (ResultUrl(<<"r">>) :> ER(<<>>, "r"))

Worlds == {"plain", "star", "slash", "unavail", "country", "twococ",
           "vbs2", "vbs0", "emptyname", "info"}

\* the documents the upstream of world w publishes, by URL
Upstream(w) ==
    CASE w = "plain" -> WorldPlain
      [] w = "star" -> WorldStar
      [] w = "slash" -> WorldSlash
      [] w = "unavail" -> WorldUnavail
      [] w = "country" -> WorldCountry
      [] w = "twococ" -> WorldTwoCoc
      [] w = "vbs2" -> WorldVbs2
      [] w = "vbs0" -> WorldVbs0
      [] w = "emptyname" -> WorldEmptyName
      [] w = "info" -> WorldInfo

\* ------------------------------------------------------------ file contents
\* json.dump(data, f) run to its end
json_dump(data) == [complete |-> TRUE, val |-> data]
\* what open(file_path, 'w') leaves before json.dump has run
Truncated == [complete |-> FALSE, val |-> NoDoc]
\* json.load(f) raises JSONDecodeError on a file that holds no complete document
Parses(content) == content.complete
json_load(content) == content.val

\* ------------------------------------------------------------ state
VARIABLES
    world,     \* the upstream tree of this behaviour
    base_dir,  \* the value of the option -b/--base-dir given to main
    fails,     \* fetches answered so far with something else than the document
    files,     \* the storage tree: path -> file content
    dirs,      \* the directories of the storage tree
    status,    \* "idle", "running", "done", "fatal", "killed"
    err,       \* the exception that ended the last run, "" when none
    run,       \* number of runs started
    stack,     \* the frames of download_data, the innermost last
    call,      \* the load_or_download call in progress
    ret,       \* how the last load_or_download call ended, until its caller handles it
    nvisit,    \* number of download_data calls of this run
    log,       \* the effects of this run, in order
    last,      \* summary of the last load_or_download call that ended
    snap       \* the storage tree at the end of the last run that ended normally

vars == <<world, base_dir, fails, files, dirs, status, err, run, stack, call, ret, nvisit, log,
          last, snap>>

NoCall == [active |-> FALSE, site |-> "", path |-> <<>>, url |-> <<>>, pc |-> "",
           data |-> NoDoc, hit |-> FALSE, gets |-> 0, sleeps |-> 0, writes |-> 0,
           wpath |-> <<>>]
NoRet == [kind |-> "none", site |-> "", data |-> NoDoc]
NoSnap == [taken |-> FALSE, files |-> <<>>, dirs |-> {}]

\* os.path.isdir(p) in the place of os.path.exists(p)
ExistsDirOnly(p) == p \in dirs

\* os.path.exists(p)
Exists(p) == p \in DOMAIN files \/ p \in dirs

\* an effect of the frame that runs: a request, a sleep, a read, a write, a return
Event(op, arg) ==
    [op |-> op, arg |-> arg, vid |-> stack[Len(stack)].id, par |-> 0,
     site |-> IF call.active THEN call.site ELSE ret.site]
\* download_data is entered for node_dir, as visit vid, called by visit par
Enter(node_dir, vid, par) ==
    [op |-> "enter", arg |-> node_dir, vid |-> vid, par |-> par, site |-> ""]

Top == stack[Len(stack)]
SetTop(f) == [stack EXCEPT ![Len(stack)] = f]

\* a frame of download_data(sess, node_dir, node_url, download_delay) at its first line
Frame(id, node_dir, node_url) ==
    [id |-> id, dir |-> node_dir, url |-> node_url, pc |-> "info", info |-> NoDoc,
     kids |-> <<>>, pps |-> <<>>, contests |-> {}, contest |-> <<>>]

info_path(node_dir) == PathJoin(<<BASE_DIR, <<"results">>, node_dir, <<"info", ".json">>>>)
info_url(node_url) == urljoin(<<BASE_URL, <<"regions">>, node_url>>)
child_dir(node_dir, child) == Join2(node_dir, Replace(child.rn, "/", "_"))
child_url(child) == child.url \o <<".json">>
precinct_path(node_dir, precinct) ==
    PathJoin(<<BASE_DIR, <<"results">>, node_dir, precinct.ppcc \o <<".json">>>>)
precinct_url(precinct) ==
    urljoin(<<BASE_URL, <<"results">>, precinct.vbs[1].url \o <<".json">>>>)
contest_path(contest) == PathJoin(<<BASE_DIR, <<"contests">>, contest \o <<".json">>>>)
contest_url(contest) == urljoin(<<BASE_URL, <<"contests">>, contest \o <<".json">>>>)
coc_path(node_dir) == PathJoin(<<BASE_DIR, <<"results">>, node_dir, <<"coc", ".json">>>>)
coc_url(coc) == urljoin(<<BASE_URL, <<"results">>, coc.vbs[1].url \o <<".json">>>>)

\* load_or_download(sess, file_path, url, download_delay) at its first line
Call(site, file_path, url) ==
    [active |-> TRUE, site |-> site, path |-> file_path, url |-> url, pc |-> "exists",
     data |-> NoDoc, hit |-> FALSE, gets |-> 0, sleeps |-> 0, writes |-> 0,
     wpath |-> <<>>]

Summary(c, outcome, data) ==
    [site |-> c.site, path |-> c.path, url |-> c.url, hit |-> c.hit, gets |-> c.gets,
     sleeps |-> c.sleeps, writes |-> c.writes, wpath |-> c.wpath, outcome |-> outcome,
     data |-> data]
NoSummary ==
    [site |-> "", path |-> <<>>, url |-> <<>>, hit |-> FALSE, gets |-> 0,
     sleeps |-> 0, writes |-> 0, wpath |-> <<>>, outcome |-> "none", data |-> NoDoc]

\* values of the option -b/--base-dir: its default and another directory
BaseDirs == {<<"data">>, <<"out">>}

Init ==
    /\ world \in Worlds
    /\ base_dir \in BaseDirs
    /\ fails = 0
    /\ files = <<>>
    /\ dirs = {}
    /\ status = "idle"
    /\ err = ""
    /\ run = 0
    /\ stack = <<>>
    /\ call = NoCall
    /\ ret = NoRet
    /\ nvisit = 0
    /\ log = <<>>
    /\ last = NoSummary
    /\ snap = NoSnap

\* an exception that no handler of download_data catches ends the run
Fatal(kind) ==
    /\ status' = "fatal"
    /\ err' = kind
    /\ stack' = <<>>
    /\ call' = NoCall
    /\ ret' = NoRet

Running == status = "running"
AtPc(pc) == Running /\ ~call.active /\ ret.kind = "none" /\ stack # <<>> /\ Top.pc = pc

\* json.JSONDecodeError is a subclass of ValueError: `except ValueError` catches both
IsValueError(kind) == kind \in {"ValueError", "JSONDecodeError"}
Returned(site) == Running /\ ~call.active /\ ret.site = site /\ ret.kind = "ok"
Raised(site) == Running /\ ~call.active /\ ret.site = site /\ IsValueError(ret.kind)

\* ------------------------------------------------------------ load_or_download
InCall(pc) == Running /\ call.active /\ call.pc = pc

\* the call ends by returning data
LodReturn(c, data) ==
    /\ ret' = [kind |-> "ok", site |-> c.site, data |-> data]
    /\ last' = Summary(c, "ok", data)
    /\ call' = NoCall

\* the call ends by raising an exception of class kind
LodRaise(c, kind) ==
    /\ last' = Summary(c, kind, NoDoc)
    /\ IF kind \in {"ValueError", "JSONDecodeError"}
       THEN /\ ret' = [kind |-> kind, site |-> c.site, data |-> NoDoc]
            /\ call' = NoCall
            /\ UNCHANGED <<status, err, stack>>
       ELSE Fatal(kind)

\* lines 21-24 and 39: the file exists and json.load parses it
LodHit ==
    /\ InCall("exists")
    /\ Exists(call.path)
    /\ call.path \in DOMAIN files /\ Parses(files[call.path])
    /\ LodReturn([call EXCEPT !.hit = TRUE], json_load(files[call.path]))
    /\ log' = Append(log, Event("read", call.path))
    /\ UNCHANGED <<world, base_dir, fails, files, dirs, status, err, run, stack, nvisit, snap>>

\* lines 21-24: the path exists and open or json.load raises
LodLoadFails ==
    /\ InCall("exists")
    /\ Exists(call.path)
    /\ ~(call.path \in DOMAIN files /\ Parses(files[call.path]))
    /\ LodRaise([call EXCEPT !.hit = TRUE],
                IF call.path \in DOMAIN files THEN "JSONDecodeError"
                ELSE "IsADirectoryError")
    /\ log' = Append(log, Event("read", call.path))
    /\ UNCHANGED <<world, base_dir, fails, files, dirs, run, nvisit, snap>>

\* lines 26-30: the response parses as JSON, then time.sleep(download_delay)
LodGetOk ==
    /\ InCall("exists")
    /\ ~Exists(call.path)
    /\ call.url \in DOMAIN Upstream(world)
    /\ call' = [call EXCEPT !.pc = "got", !.data = Upstream(world)[call.url],
                            !.gets = @ + 1, !.sleeps = @ + 1]
    /\ log' = log \o <<Event("get", call.url), Event("sleep", <<DOWNLOAD_DELAY>>)>>
    /\ UNCHANGED <<world, base_dir, fails, files, dirs, status, err, run, stack, ret, nvisit,
                   last, snap>>

\* the file opened for writing before the response is parsed
LodGetNotJsonPartial ==
    /\ InCall("exists")
    /\ ~Exists(call.path)
    /\ call.url \notin DOMAIN Upstream(world) \/ fails < MaxFail
    /\ fails' = IF call.url \in DOMAIN Upstream(world) THEN fails + 1 ELSE fails
    /\ files' = (Replace(call.path, "*", "_") :> Truncated) @@ files
    /\ LodRaise([call EXCEPT !.gets = @ + 1], "ValueError")
    /\ log' = Append(log, Event("get", call.url))
    /\ UNCHANGED <<world, base_dir, dirs, run, nvisit, snap>>

\* lines 29-33: the response does not parse as JSON; .json() raises before the sleep
LodGetNotJson ==
    /\ InCall("exists")
    /\ ~Exists(call.path)
    /\ call.url \notin DOMAIN Upstream(world) \/ fails < MaxFail
    /\ fails' = IF call.url \in DOMAIN Upstream(world) THEN fails + 1 ELSE fails
    /\ LodRaise([call EXCEPT !.gets = @ + 1], "ValueError")
    /\ log' = Append(log, Event("get", call.url))
    /\ UNCHANGED <<world, base_dir, files, dirs, run, nvisit, snap>>

\* line 29: sess.get raises (no connection, timeout)
LodGetError ==
    /\ InCall("exists")
    /\ ~Exists(call.path)
    /\ fails < MaxFail
    /\ fails' = fails + 1
    /\ LodRaise([call EXCEPT !.gets = @ + 1], "ConnectionError")
    /\ log' = Append(log, Event("get", call.url))
    /\ UNCHANGED <<world, base_dir, files, dirs, run, nvisit, snap>>

\* line 34
Sanitized(file_path) == Replace(file_path, "*", "_")

\* lines 34-37: sanitize, os.makedirs, open(file_path, 'w')
LodOpen ==
    /\ InCall("got")
    /\ LET file_path == Sanitized(call.path)
           made == Ancestors(Dirname(file_path))
       IN IF (\E d \in made : d \in DOMAIN files) \/ file_path \in dirs
          THEN /\ LodRaise(call, "OSError")
               /\ UNCHANGED <<files, dirs, log>>
          ELSE /\ files' = (file_path :> Truncated) @@ files
               /\ dirs' = dirs \cup made
               /\ call' = [call EXCEPT !.pc = "opened", !.wpath = file_path,
                                       !.writes = @ + 1]
               /\ log' = Append(log, Event("write", file_path))
               /\ UNCHANGED <<status, err, stack, ret, last>>
    /\ UNCHANGED <<world, base_dir, fails, run, nvisit, snap>>

\* lines 38-39: json.dump, close, return data
LodDump ==
    /\ InCall("opened")
    /\ files' = (call.wpath :> json_dump(call.data)) @@ files
    /\ LodReturn(call, call.data)
    /\ UNCHANGED <<world, base_dir, fails, dirs, status, err, run, stack, nvisit, log, snap>>

\* ------------------------------------------------------------ download_data
\* main, lines 130-138: the local BASE_DIR = 'data' is bound and never read, base_dir
\* is not used, and download_data reads the module's BASE_DIR;
\* download_data(sess, '', 'root.json', download_delay)
Main ==
    /\ status # "running"
    /\ run < MaxRuns
    /\ run' = run + 1
    /\ status' = "running"
    /\ err' = ""
    /\ stack' = <<Frame(1, <<>>, ROOT_URL)>>
    /\ nvisit' = 1
    /\ log' = <<Enter(<<>>, 1, 0)>>
    /\ last' = NoSummary
    /\ snap' = IF status = "done" THEN [taken |-> TRUE, files |-> files, dirs |-> dirs]
               ELSE NoSnap
    /\ UNCHANGED <<world, base_dir, fails, files, dirs, call, ret>>

\* the process is terminated from outside while it runs
Kill ==
    /\ Running
    /\ status' = "killed"
    /\ err' = ""
    /\ stack' = <<>>
    /\ call' = NoCall
    /\ ret' = NoRet
    /\ UNCHANGED <<world, base_dir, fails, files, dirs, run, nvisit, log, last, snap>>

\* number of time.sleep(RETRY_WAIT) of this run
Retries == Cardinality({i \in DOMAIN log : log[i].op = "sleep" /\ log[i].arg = <<RETRY_WAIT>>})

\* lines 57-61: the first load_or_download of the descriptor
CallInfo ==
    /\ AtPc("info")
    /\ call' = Call("info", info_path(Top.dir), info_url(Top.url))
    /\ UNCHANGED <<world, base_dir, fails, files, dirs, status, err, run, stack, ret, nvisit, log,
                   last, snap>>

\* lines 63-66 and 61: ValueError caught, time.sleep(RETRY_WAIT), call again
InfoRetry ==
    /\ Raised("info")
    /\ Retries < MaxRetry
    /\ log' = Append(log, Event("sleep", <<RETRY_WAIT>>))
    /\ ret' = NoRet
    /\ call' = Call("info", info_path(Top.dir), info_url(Top.url))
    /\ UNCHANGED <<world, base_dir, fails, files, dirs, status, err, run, stack, nvisit, last,
                   snap>>

\* lines 62 and 69: break; node_info['srs'].values()
InfoOk ==
    /\ Returned("info")
    /\ IF "srs" \in ret.data.has
       THEN /\ stack' = SetTop([Top EXCEPT !.pc = "kids", !.info = ret.data,
                                           !.kids = ret.data.srs])
            /\ ret' = NoRet
            /\ UNCHANGED <<status, err, call>>
       ELSE Fatal("KeyError")
    /\ UNCHANGED <<world, base_dir, fails, files, dirs, run, nvisit, log, last, snap>>

\* lines 69-72: the next child; download_data(sess, child_dir, child['url']+'.json', ..)
Recurse ==
    /\ AtPc("kids")
    /\ Top.kids # <<>>
    /\ LET child == Head(Top.kids) IN
       IF Len(stack) >= MaxDepth
       THEN /\ Fatal("RecursionError")
            /\ UNCHANGED <<nvisit, log>>
       ELSE /\ nvisit' = nvisit + 1
            /\ stack' = Append(SetTop([Top EXCEPT !.kids = Tail(@)]),
                               Frame(nvisit + 1, child_dir(Top.dir, child),
                                     child_url(child)))
            /\ log' = Append(log, Enter(child_dir(Top.dir, child), nvisit + 1, Top.id))
            /\ UNCHANGED <<status, err, call, ret>>
    /\ UNCHANGED <<world, base_dir, fails, files, dirs, run, last, snap>>

\* line 74, true: node_info['can'] == 'Barangay'
BranchER ==
    /\ AtPc("kids")
    /\ Top.kids = <<>>
    /\ "can" \in Top.info.has /\ Top.info.can = "Barangay"
    /\ IF "pps" \in Top.info.has
       THEN /\ stack' = SetTop([Top EXCEPT !.pc = "er", !.pps = Top.info.pps])
            /\ UNCHANGED <<status, err, call, ret>>
       ELSE Fatal("KeyError")
    /\ UNCHANGED <<world, base_dir, fails, files, dirs, run, nvisit, log, last, snap>>

\* the canvass certificates handled before the loop over the children has ended
BranchCOCEarly ==
    /\ AtPc("kids")
    /\ ~("can" \in Top.info.has /\ Top.info.can = "Barangay")
    /\ IF ~({"can", "pps"} \subseteq Top.info.has) THEN Fatal("KeyError")
       ELSE IF ~(Top.info.can = "Country" \/ Len(Top.info.pps) < 2)
       THEN Fatal("AssertionError")
       ELSE /\ stack' = SetTop([Top EXCEPT !.pc = "coc", !.pps = Top.info.pps])
            /\ UNCHANGED <<status, err, call, ret>>
    /\ UNCHANGED <<world, base_dir, fails, files, dirs, run, nvisit, log, last, snap>>

\* the loop over the canvass certificates entered without the assertion of line 108
BranchCOCNoAssert ==
    /\ AtPc("kids")
    /\ Top.kids = <<>>
    /\ ~("can" \in Top.info.has /\ Top.info.can = "Barangay")
    /\ IF ~({"can", "pps"} \subseteq Top.info.has) THEN Fatal("KeyError")
       ELSE /\ stack' = SetTop([Top EXCEPT !.pc = "coc", !.pps = Top.info.pps])
            /\ UNCHANGED <<status, err, call, ret>>
    /\ UNCHANGED <<world, base_dir, fails, files, dirs, run, nvisit, log, last, snap>>

\* lines 74, false, and 108: the assertion on the number of terminal-data references
BranchCOC ==
    /\ AtPc("kids")
    /\ Top.kids = <<>>
    /\ ~("can" \in Top.info.has /\ Top.info.can = "Barangay")
    /\ IF ~({"can", "pps"} \subseteq Top.info.has) THEN Fatal("KeyError")
       ELSE IF ~(Top.info.can = "Country" \/ Len(Top.info.pps) < 2)
       THEN Fatal("AssertionError")
       ELSE /\ stack' = SetTop([Top EXCEPT !.pc = "coc", !.pps = Top.info.pps])
            /\ UNCHANGED <<status, err, call, ret>>
    /\ UNCHANGED <<world, base_dir, fails, files, dirs, run, nvisit, log, last, snap>>

\* the election return requested from its first voting board without the assertion
CallERNoAssert ==
    /\ AtPc("er")
    /\ Top.pps # <<>>
    /\ call' = Call("er", precinct_path(Top.dir, Head(Top.pps)), precinct_url(Head(Top.pps)))
    /\ UNCHANGED <<world, base_dir, fails, files, dirs, status, err, run, stack, ret, nvisit, log,
                   last, snap>>

\* lines 75-84: the next precinct, the assertion on vbs, load_or_download of the ER
CallER ==
    /\ AtPc("er")
    /\ Top.pps # <<>>
    /\ LET precinct == Head(Top.pps) IN
       IF Len(precinct.vbs) # 1
       THEN Fatal("AssertionError")
       ELSE /\ call' = Call("er", precinct_path(Top.dir, precinct), precinct_url(precinct))
            /\ UNCHANGED <<status, err, stack, ret>>
    /\ UNCHANGED <<world, base_dir, fails, files, dirs, run, nvisit, log, last, snap>>

\* the election return retried like a descriptor, in the place of `continue`
ErSkipRetries ==
    /\ Raised("er")
    /\ log' = Append(log, Event("sleep", <<RETRY_WAIT>>))
    /\ ret' = NoRet
    /\ call' = Call("er", precinct_path(Top.dir, Head(Top.pps)), precinct_url(Head(Top.pps)))
    /\ UNCHANGED <<world, base_dir, fails, files, dirs, status, err, run, stack, nvisit, last,
                   snap>>

\* lines 85-86: except ValueError: continue
ErSkip ==
    /\ Raised("er")
    /\ stack' = SetTop([Top EXCEPT !.pps = Tail(@)])
    /\ ret' = NoRet
    /\ UNCHANGED <<world, base_dir, fails, files, dirs, status, err, run, call, nvisit, log, last,
                   snap>>

\* line 89: contests = set(map(itemgetter('cc'), precinct_results['rs']))
ErOk ==
    /\ Returned("er")
    /\ IF "rs" \in ret.data.has
       THEN /\ stack' = SetTop([Top EXCEPT !.pc = "contests",
                   !.contests = {ret.data.rs[i].cc : i \in 1..Len(ret.data.rs)}])
            /\ ret' = NoRet
            /\ UNCHANGED <<status, err, call>>
       ELSE Fatal("KeyError")
    /\ UNCHANGED <<world, base_dir, fails, files, dirs, run, nvisit, log, last, snap>>

\* lines 90-97: the next contest of the set, in any order; load_or_download
CallContest ==
    /\ AtPc("contests")
    /\ \E contest \in Top.contests :
        /\ stack' = SetTop([Top EXCEPT !.contest = contest, !.contests = @ \ {contest}])
        /\ call' = Call("contest", contest_path(contest), contest_url(contest))
    /\ UNCHANGED <<world, base_dir, fails, files, dirs, status, err, run, ret, nvisit, log, last,
                   snap>>

\* lines 99-104 and 97: ValueError caught, time.sleep(RETRY_WAIT), call again
ContestRetry ==
    /\ Raised("contest")
    /\ Retries < MaxRetry
    /\ log' = Append(log, Event("sleep", <<RETRY_WAIT>>))
    /\ ret' = NoRet
    /\ call' = Call("contest", contest_path(Top.contest), contest_url(Top.contest))
    /\ UNCHANGED <<world, base_dir, fails, files, dirs, status, err, run, stack, nvisit, last,
                   snap>>

\* line 98: break
ContestOk ==
    /\ Returned("contest")
    /\ ret' = NoRet
    /\ UNCHANGED <<world, base_dir, fails, files, dirs, status, err, run, stack, call, nvisit, log,
                   last, snap>>

\* line 90, exhausted: back to the loop over the precincts
ContestsDone ==
    /\ AtPc("contests")
    /\ Top.contests = {}
    /\ stack' = SetTop([Top EXCEPT !.pc = "er", !.pps = Tail(@)])
    /\ UNCHANGED <<world, base_dir, fails, files, dirs, status, err, run, call, ret, nvisit, log,
                   last, snap>>

\* lines 110-116: the next certificate, the assertion on vbs, load_or_download
CallCOC ==
    /\ AtPc("coc")
    /\ Top.pps # <<>>
    /\ LET coc == Head(Top.pps) IN
       IF Len(coc.vbs) # 1
       THEN Fatal("AssertionError")
       ELSE /\ call' = Call("coc", coc_path(Top.dir), coc_url(coc))
            /\ UNCHANGED <<status, err, stack, ret>>
    /\ UNCHANGED <<world, base_dir, fails, files, dirs, run, nvisit, log, last, snap>>

\* the canvass certificate resolved outside a try: ValueError leaves download_data
CocSkipPropagates ==
    /\ Raised("coc")
    /\ Fatal(ret.kind)
    /\ UNCHANGED <<world, base_dir, fails, files, dirs, run, nvisit, log, last, snap>>

\* lines 117-118: except ValueError: continue
CocSkip ==
    /\ Raised("coc")
    /\ stack' = SetTop([Top EXCEPT !.pps = Tail(@)])
    /\ ret' = NoRet
    /\ UNCHANGED <<world, base_dir, fails, files, dirs, status, err, run, call, nvisit, log, last,
                   snap>>

\* line 116 returned: the next certificate
CocOk ==
    /\ Returned("coc")
    /\ stack' = SetTop([Top EXCEPT !.pps = Tail(@)])
    /\ ret' = NoRet
    /\ UNCHANGED <<world, base_dir, fails, files, dirs, status, err, run, call, nvisit, log, last,
                   snap>>

\* the loop over node_info['pps'] is exhausted: download_data returns
Return ==
    /\ AtPc("er") \/ AtPc("coc")
    /\ Top.pps = <<>>
    /\ stack' = SubSeq(stack, 1, Len(stack) - 1)
    /\ status' = IF Len(stack) = 1 THEN "done" ELSE status
    /\ log' = Append(log, Event("leave", Top.dir))
    /\ UNCHANGED <<world, base_dir, fails, files, dirs, err, run, call, ret, nvisit, last, snap>>

Next ==
    \/ Main \/ Kill
    \/ LodHit \/ LodLoadFails \/ LodGetOk \/ LodGetNotJson \/ LodGetError
    \/ LodOpen \/ LodDump
    \/ CallInfo \/ InfoRetry \/ InfoOk \/ Recurse \/ BranchER \/ BranchCOC
    \/ CallER \/ ErSkip \/ ErOk \/ CallContest \/ ContestRetry \/ ContestOk
    \/ ContestsDone \/ CallCOC \/ CocSkip \/ CocOk \/ Return

Spec == Init /\ [][Next]_vars

\* ------------------------------------------------------------ properties
\* the effects this step adds to the log
NewEvents == IF Len(log') > Len(log) /\ SubSeq(log', 1, Len(log)) = log
             THEN SubSeq(log', Len(log) + 1, Len(log')) ELSE <<>>
\* the number of requests for url made so far in this run
Gets(url) == Cardinality({i \in DOMAIN log : log[i].op = "get" /\ log[i].arg = url})
NoGets == \A i \in DOMAIN log : log[i].op # "get"

\* C1 (as stated): a load_or_download call that finds a file at its storage path
\* returns the stored content.
C1_HitReturnsContent == last.hit => last.outcome = "ok"

\* C1 (amended): a load_or_download call that finds a file at its storage path
\* makes no request, no write and no sleep and leaves the storage tree as it is;
\* if the file parses it returns the stored content, and if it returns, it returns
\* the stored content.
C1_CacheHitSkip ==
    [][(InCall("exists") /\ call.path \in DOMAIN files) =>
         /\ files' = files /\ dirs' = dirs
         /\ \A i \in DOMAIN NewEvents : NewEvents[i].op = "read"
         /\ ~call'.active
         /\ ret'.kind = "ok" => ret'.data = json_load(files[call.path])
         /\ (Parses(files[call.path]) /\ status' = "running") => ret'.kind = "ok"
      ]_vars

\* C1 witness: a call has hit a file while the upstream does not publish its URL
C1_Witness ==
    /\ last.hit /\ last.outcome = "ok" /\ last.site = "coc"
    /\ last.url \notin DOMAIN Upstream(world)
    /\ last.data = json_load(files[last.path])

\* every terminal payload that a descriptor of world w refers to is published
AllPublished(w) ==
    \A u \in DOMAIN Upstream(w) :
        \A i \in DOMAIN Upstream(w)[u].pps :
            \A j \in DOMAIN Upstream(w)[u].pps[i].vbs :
                ResultUrl(Upstream(w)[u].pps[i].vbs[j].url) \in DOMAIN Upstream(w)

\* C2, for the trees whose terminal payloads are all published: a run that ends
\* normally after a run that ended normally, the upstream having answered every
\* request with its document, makes no request and leaves the storage tree as the
\* first run left it.
C2_Idempotence ==
    (status = "done" /\ snap.taken /\ fails = 0 /\ AllPublished(world)) =>
        NoGets /\ files = snap.files /\ dirs = snap.dirs

\* C2 witness: on a tree without '*' whose payloads are all published the second
\* run has ended without a request and with the storage tree unchanged
C2_Witness ==
    /\ world = "plain" /\ status = "done" /\ snap.taken /\ fails = 0
    /\ NoGets /\ files = snap.files /\ dirs = snap.dirs

\* C3: a request is made only for a resource whose file is missing when it is
\* resolved.
C3_FetchOnlyMissing ==
    [][(\E i \in DOMAIN NewEvents : NewEvents[i].op = "get") =>
         Sanitized(call.path) \notin DOMAIN files]_vars

\* C3 witness: a run that started on a storage tree holding the root descriptor
\* only has loaded it from disk and fetched the descriptor of a child
C3_Witness ==
    /\ world = "plain" /\ run = 2 /\ Gets(RegionUrl(ROOT_URL)) = 0
    /\ Gets(NodeUrl(<<"a">>)) = 1

\* C4: a file that holds a complete document is never written again nor deleted.
C4_WriteOnce ==
    [][\A p \in DOMAIN files :
         Parses(files[p]) => p \in DOMAIN files' /\ files'[p] = files[p]]_vars

\* C5: the error of a stored file that does not parse ends the run: no caller
\* catches it.
C5_CorruptionFatal == [][ret.kind = "JSONDecodeError" => status' # "running"]_vars

\* C5 witness: a stored file that does not parse has been read at a descriptor site
C5_Witness == last.hit /\ last.outcome = "JSONDecodeError" /\ last.site = "info"

\* the number of requests for terminal payloads made by visit v in this run
TermGets(v) ==
    Cardinality({i \in DOMAIN log :
        log[i].op = "get" /\ log[i].vid = v /\ log[i].site \in {"er", "coc"}})

\* the terminal-data references of frame f that have been attempted or are being so
Attempted(f) ==
    IF f.pc \in {"info", "kids"} THEN 0
    ELSE Len(f.info.pps) - Len(f.pps)
         + (IF f.pc \in {"er", "coc"} /\ ~call.active /\ ret.kind = "none" THEN 0 ELSE 1)

\* C6: a node makes at most one request per terminal-data reference it has attempted;
\* a terminal fetch that is not yet available writes no file, and its caller goes on
\* to the next reference of the same loop without a retry, a sleep, a contest or a
\* failure of the run.
C6_TerminalSingleAttempt ==
    /\ [](\A k \in DOMAIN stack : TermGets(stack[k].id) <= Attempted(stack[k]))
    /\ []((last.site \in {"er", "coc"} /\ last.outcome = "ValueError") =>
            (last.gets = 1 /\ last.writes = 0))
    /\ [][((Raised("er") \/ Raised("coc")) /\ ret.kind = "ValueError"
             /\ status' # "killed") =>
            /\ status' = "running" /\ files' = files /\ dirs' = dirs /\ log' = log
            /\ ~call'.active /\ ret'.kind = "none"
            /\ stack' = SetTop([Top EXCEPT !.pps = Tail(@)])
            /\ Top.pc \in {"er", "coc"}]_vars

\* C6 witness: the first election return was not available, the second one and its
\* contest have been fetched and the run has ended normally
C6_Witness ==
    /\ world = "unavail" /\ status = "done" /\ fails = 0
    /\ Gets(ResultUrl(<<"r">>)) = 1 /\ Gets(ResultUrl(<<"s">>)) = 1
    /\ Gets(ContestUrl(<<"x">>)) = 1
    /\ precinct_path(<<>>, Pps(<<"p">>, <<(<<"r">>)>>)) \notin DOMAIN files

\* C7: at a descriptor or contest site an error other than 'not yet available'
\* ends the retry loop: load_or_download is not called again.
C7_OtherErrorsEndLoop ==
    [][(ret.site \in {"info", "contest"} /\ ret.kind \notin {"none", "ok", "ValueError"})
         => ~call'.active]_vars

\* C7 witness: the root descriptor was not available at first, was fetched again
\* after the wait and is stored
C7_Witness ==
    /\ Gets(RegionUrl(ROOT_URL)) = 2
    /\ \E i \in DOMAIN log : log[i].op = "sleep" /\ log[i].arg = <<RETRY_WAIT>>
    /\ info_path(<<>>) \in DOMAIN files /\ Parses(files[info_path(<<>>)])
    /\ \E k \in DOMAIN stack : stack[k].pc # "info"

\* the visit that called visit w, 0 for the root's
Par(w) ==
    LET J == {j \in DOMAIN log : log[j].op = "enter" /\ log[j].vid = w}
    IN IF J = {} THEN 0 ELSE log[CHOOSE j \in J : TRUE].par

\* visit w is in the subtree below visit v
RECURSIVE IsBelow(_, _)
IsBelow(w, v) == w # 0 /\ Par(w) # 0 /\ (Par(w) = v \/ IsBelow(Par(w), v))

\* a read, request or write for a terminal payload or a contest document
TerminalEvent(e) == e.op \in {"read", "get", "write"} /\ e.site \in {"er", "coc", "contest"}

Rank(pc) == CASE pc = "info" -> 1 [] pc = "kids" -> 2 [] OTHER -> 3

\* C8: when a node reads, requests or writes one of its terminal payloads or contests,
\* its descriptor has been resolved, every child of its descriptor has been visited,
\* and every effect of every visit of the subtree below it, the return included, has
\* happened before; a frame never moves back to an earlier phase and returns only
\* from the end of its terminal-data loop.
C8_ChildrenBeforeTerminal ==
    /\ [](\A i \in DOMAIN log : TerminalEvent(log[i]) =>
            /\ \E j \in 1..(i - 1) : log[j].vid = log[i].vid /\ log[j].site = "info"
                                     /\ log[j].op \in {"read", "write"}
            /\ \A w \in 1..nvisit : IsBelow(w, log[i].vid) =>
                 /\ \A m \in DOMAIN log : log[m].vid = w => m < i
                 /\ \E k \in 1..(i - 1) : log[k].op = "leave" /\ log[k].vid = w)
    /\ [](\A k \in DOMAIN stack : Rank(stack[k].pc) = 3 =>
            /\ k = Len(stack) /\ stack[k].kids = <<>>
            /\ Cardinality({j \in DOMAIN log : log[j].op = "enter"
                                /\ log[j].par = stack[k].id}) = Len(stack[k].info.srs))
    /\ [][\A k \in DOMAIN stack :
            IF k \in DOMAIN stack' /\ stack'[k].id = stack[k].id
            THEN Rank(stack'[k].pc) >= Rank(stack[k].pc)
            ELSE \/ status' \in {"fatal", "killed"}
                 \/ k = Len(stack) /\ Rank(stack[k].pc) = 3 /\ stack[k].pps = <<>>]_vars

\* C8 witness: the root's canvass certificate is requested after both leaves have
\* returned, their election returns and contests fetched
C8_Witness ==
    /\ world = "plain" /\ call.active /\ call.site = "coc" /\ Len(stack) = 1
    /\ Gets(ResultUrl(<<"r">>)) = 1 /\ Gets(ResultUrl(<<"s">>)) = 1
    /\ Gets(ContestUrl(<<"y">>)) = 1
    /\ Cardinality({j \in DOMAIN log : log[j].op = "leave"}) = 2

\* C9: in a run in which the upstream answers every request with its document, no
\* contest document is requested twice.
C9_ContestOnce ==
    fails = 0 =>
        \A i, j \in DOMAIN log :
            (log[i].op = "get" /\ log[i].site = "contest" /\ log[j] = log[i]) => i = j

\* C9 witness: both leaves have resolved their election returns, which share
\* contest x, and x has been requested once
C9_Witness ==
    /\ world = "plain" /\ status = "done" /\ fails = 0
    /\ Gets(ResultUrl(<<"r">>)) = 1 /\ Gets(ResultUrl(<<"s">>)) = 1
    /\ Gets(ContestUrl(<<"x">>)) = 1

\* C10: in a run that no connection error ended, every request is followed at once
\* by a sleep of the download delay.
C10_SleepAfterGet ==
    err # "ConnectionError" =>
        \A i \in DOMAIN log : log[i].op = "get" =>
            /\ i < Len(log)
            /\ log[i + 1].op = "sleep" /\ log[i + 1].arg = <<DOWNLOAD_DELAY>>

\* C10 witness: a request whose response parsed has been followed by the sleep
C10_Witness ==
    /\ last.outcome = "ok" /\ last.gets = 1 /\ last.sleeps = 1
    /\ \E i \in DOMAIN log : log[i].op = "get" /\ i < Len(log)
                             /\ log[i + 1].arg = <<DOWNLOAD_DELAY>>

\* the terminal-data reference the innermost frame is at has not exactly one
\* voting-board reference
AtBadReference ==
    /\ (AtPc("er") \/ AtPc("coc"))
    /\ Top.pps # <<>>
    /\ Len(Head(Top.pps).vbs) # 1

\* C11: a terminal-data reference without exactly one voting-board reference is
\* never resolved: the step that reaches it ends the run with AssertionError, all
\* frames gone, without a request, a read or a write, whether or not its payload
\* file is on disk; and a run that has ended so does nothing more.
C11_VotingBoardFatal ==
    /\ []((call.active /\ call.site \in {"er", "coc"}) => Len(Head(Top.pps).vbs) = 1)
    /\ [][AtBadReference =>
            \/ status' = "killed"
            \/ /\ status' = "fatal" /\ err' = "AssertionError"
               /\ stack' = <<>> /\ ~call'.active /\ ret'.kind = "none"
               /\ files' = files /\ dirs' = dirs /\ log' = log]_vars
    /\ [][(status = "fatal" /\ run' = run) =>
            (files' = files /\ dirs' = dirs /\ log' = log /\ status' = "fatal")]_vars

\* C11 witness: the run has ended with AssertionError raised in the leaf, below the
\* root's frame, at the reference with two voting boards, whose payload file is on
\* disk; neither board was requested on its behalf, nor the root's certificate
C11_Witness ==
    /\ world = "vbs2" /\ status = "fatal" /\ err = "AssertionError"
    /\ precinct_path(<<"a">>, Pps(<<"p">>, <<>>)) \in DOMAIN files
    /\ Gets(ResultUrl(<<"r">>)) = 1 /\ Gets(ResultUrl(<<"s">>)) = 0
    /\ Gets(ResultUrl(<<"k">>)) = 0

\* the number of requests among the effects this step adds
NewGets == Cardinality({i \in DOMAIN NewEvents : NewEvents[i].op = "get"})

\* the storage tree after this step differs from the one before at most in file p
OnlyFileChanged(p) ==
    /\ DOMAIN files' = DOMAIN files \cup {p}
    /\ \A q \in DOMAIN files : q # p => files'[q] = files[q]

\* C12: a load_or_download call that finds nothing at its storage path makes one
\* request. If the response parses, the call then writes one file, which holds the
\* fetched document when the call returns, and returns that document. If it does
\* not parse, the call raises ValueError and the files and directories are as before.
C12_CacheMissEffects ==
    /\ []((last.outcome \in {"ok", "ValueError"} /\ ~last.hit) =>
            /\ last.gets = 1
            /\ last.writes = (IF last.outcome = "ok" THEN 1 ELSE 0)
            /\ last.outcome = "ok" => last.data = Upstream(world)[last.url])
    /\ [][(InCall("exists") /\ ~Exists(call.path) /\ status' # "killed") =>
            /\ NewGets = 1 /\ files' = files /\ dirs' = dirs
            /\ IF call'.active
               THEN call'.pc = "got" /\ call'.data = Upstream(world)[call.url]
               ELSE ret'.kind = "ValueError" \/ status' = "fatal"]_vars
    /\ [][(InCall("got") /\ status' = "running") =>
            /\ NewGets = 0 /\ call'.pc = "opened"
            /\ OnlyFileChanged(call'.wpath)]_vars
    /\ [][(InCall("opened") /\ status' = "running") =>
            /\ NewGets = 0 /\ dirs' = dirs /\ OnlyFileChanged(call.wpath)
            /\ files'[call.wpath] = json_dump(call.data)
            /\ ret'.kind = "ok" /\ ret'.data = call.data]_vars

\* C12 witness: a call that found no file got a response that did not parse and left
\* no file and no directory; a later call for the same resource fetched and stored it
C12_Witness ==
    /\ last.outcome = "ok" /\ ~last.hit /\ last.site = "info" /\ Len(stack) = 1
    /\ Gets(last.url) = 2 /\ Cardinality(DOMAIN files) = 1
    /\ files[last.wpath] = json_dump(Upstream(world)[last.url])

\* path p lies under directory d
Under(p, d) ==
    /\ Len(p) > Len(d) + 1
    /\ SubSeq(p, 1, Len(d)) = d
    /\ p[Len(d) + 1] = "/"

\* C13: every file that the run reads or writes lies under the directory given
\* by the option -b/--base-dir.
C13_UnderBaseDir ==
    /\ \A p \in DOMAIN files : Under(p, base_dir)
    /\ \A i \in DOMAIN log : log[i].op \in {"read", "write"} => Under(log[i].arg, base_dir)

\* C13 witness: with the option left at its default a run has ended normally and
\* everything it stored lies under that directory
C13_Witness ==
    /\ base_dir = <<"data">> /\ status = "done" /\ files # <<>>
    /\ \A p \in DOMAIN files : Under(p, base_dir)

\* C14: between every two requests of a run the thread sleeps (a sleep of RETRY_WAIT
\* is counted like one of the download delay).
C14_SleepBetweenGets ==
    \A i, j \in DOMAIN log :
        (i < j /\ log[i].op = "get" /\ log[j].op = "get") =>
            \E k \in (i + 1)..(j - 1) : log[k].op = "sleep"

\* C14 witness: a request that was answered with its document, the sleep of the
\* download delay, then the next request
C14_Witness ==
    \E i \in DOMAIN log :
        /\ i + 3 <= Len(log)
        /\ log[i].op = "get" /\ log[i + 1].op = "sleep"
        /\ log[i + 1].arg = <<DOWNLOAD_DELAY>>
        /\ log[i + 2].op = "write" /\ log[i + 3].op = "get"

\* C15: no run ends with the ValueError of a response that did not parse: at each of
\* the four call sites the step after the raise leaves the run running, with the same
\* frames and the error handled.
C15_RecoverableAbsorbed ==
    /\ [](status = "fatal" => err # "ValueError")
    /\ [](ret.kind = "ValueError" => ret.site \in {"info", "er", "contest", "coc"})
    /\ [][(ret.kind = "ValueError" /\ status' # "killed") =>
            /\ status' = "running" /\ err' = ""
            /\ ret'.kind = "none"
            /\ Len(stack') = Len(stack)]_vars

\* C15 witness: the root descriptor was not available at first and was retried, an
\* election return was not available and was skipped, and the run has ended normally
C15_Witness ==
    /\ world = "unavail" /\ status = "done"
    /\ Gets(RegionUrl(ROOT_URL)) = 2 /\ Gets(ResultUrl(<<"r">>)) = 1
    /\ Gets(ResultUrl(<<"s">>)) = 1

\* the innermost frame has visited its children and its node is no Barangay
AtNonLeafBranch ==
    /\ AtPc("kids") /\ Top.kids = <<>>
    /\ {"can", "pps"} \subseteq Top.info.has
    /\ Top.info.can # "Barangay"

\* C16: a node that is neither Barangay nor Country and has two or more
\* terminal-data references ends the run with AssertionError, with no request, read
\* or write for a canvass certificate of it; a Country node and a node with at most
\* one reference go on to their canvass certificates.
C16_NonLeafBound ==
    /\ [](\A k \in DOMAIN stack : stack[k].pc = "coc" =>
            (stack[k].info.can = "Country" \/ Len(stack[k].info.pps) < 2))
    /\ [][(AtNonLeafBranch /\ status' # "killed") =>
            IF Top.info.can = "Country" \/ Len(Top.info.pps) < 2
            THEN /\ status' = "running"
                 /\ stack' = SetTop([Top EXCEPT !.pc = "coc", !.pps = Top.info.pps])
            ELSE /\ status' = "fatal" /\ err' = "AssertionError" /\ stack' = <<>>
                 /\ files' = files /\ dirs' = dirs /\ log' = log]_vars
    /\ []((call.active /\ call.site = "coc") =>
            (Top.info.can = "Country" \/ Len(Top.info.pps) < 2))

\* C16 witness: the Region node with two certificates has ended the run with
\* AssertionError after its descriptor was stored; no certificate was requested
C16_Witness ==
    /\ world = "twococ" /\ status = "fatal" /\ err = "AssertionError"
    /\ info_path(<<>>) \in DOMAIN files
    /\ Gets(ResultUrl(<<"k">>)) = 0 /\ Gets(ResultUrl(<<"m">>)) = 0

\* the number of nodes of the tree of world w
NodeCount(w) == Cardinality({u \in DOMAIN Upstream(w) : "srs" \in Upstream(w)[u].has})

\* no node of the tree of world w has a terminal-data reference
NoTerminalData(w) == \A u \in DOMAIN Upstream(w) : Upstream(w)[u].pps = <<>>

\* C17, for the trees without terminal data: the first run, every request of which
\* is answered with its document, ends only normally, with one visit per node.
C17_TerminatesCovering ==
    (run = 1 /\ fails = 0 /\ NoTerminalData(world) /\ status \in {"done", "fatal"}) =>
        (status = "done" /\ nvisit = NodeCount(world))

\* C17 witness: on a tree whose child names are distinct and not empty the first run
\* has ended normally with one visit per node
C17_Witness ==
    /\ world = "plain" /\ run = 1 /\ fails = 0 /\ status = "done"
    /\ nvisit = NodeCount(world)

\* C18: after a call that missed and fetched successfully, the path that was written
\* is the path that was tested, so it exists and holds the content that was returned.
C18_FetchThenHit ==
    (last.outcome = "ok" /\ ~last.hit) =>
        /\ last.wpath = last.path
        /\ Exists(last.path)
        /\ last.path \in DOMAIN files /\ files[last.path] = json_dump(last.data)

\* C18 witness: a call for a path without '*' missed, fetched and wrote that path
C18_Witness ==
    /\ last.outcome = "ok" /\ ~last.hit /\ last.writes = 1
    /\ last.wpath = last.path /\ Exists(last.path)

\* no child of the tree of world w has an empty name and no terminal-data reference
\* has the identifier 'info'
OrdinaryNames(w) ==
    \A u \in DOMAIN Upstream(w) :
        /\ \A i \in DOMAIN Upstream(w)[u].srs : Upstream(w)[u].srs[i].rn # <<>>
        /\ \A i \in DOMAIN Upstream(w)[u].pps : Upstream(w)[u].pps[i].ppcc # <<"info">>

\* C19, for the trees whose child names are not empty and whose terminal identifiers
\* are not 'info': a cache hit returns the document published at the network locator
\* the call was made for.
C19_CacheCoherence ==
    (OrdinaryNames(world) /\ last.hit /\ last.outcome = "ok") =>
        /\ last.url \in DOMAIN Upstream(world)
        /\ last.data = Upstream(world)[last.url]

\* C19 witness: a later run hit the file of a resource and returned its document
C19_Witness ==
    /\ world = "plain" /\ run = 2 /\ last.hit /\ last.outcome = "ok"
    /\ last.url \in DOMAIN Upstream(world) /\ last.data = Upstream(world)[last.url]

====
